---- MODULE Spec2Model ----
(***************************************************************************)
(* Model of p2p/server.py: the Server (start / run / stop) and the         *)
(* responder side of the RLPx handshake (receive_handshake,                *)
(* decode_authentication).                                                 *)
(*                                                                         *)
(* One asyncio event loop runs run() and one receive_handshake task per    *)
(* accepted connection.  Code between two awaits runs atomically, so each  *)
(* action below is the code from one await to the next.  The awaits are:   *)
(* start_server, cancel_token.wait, wait_closed, peer_pool.stop in run /   *)
(* stop, and reader.read (twice) and writer.drain in receive_handshake.    *)
(*                                                                         *)
(* A byte string is modelled by its length, its first two bytes and the    *)
(* payload it is a prefix of; the decoders of p2p.auth and the primitives  *)
(* of eth_keys / p2p.ecies are outside this file and are modelled at their *)
(* interface: they succeed or raise according to the payload, and their    *)
(* results are symbolic terms.                                             *)
(***************************************************************************)
EXTENDS Integers, Sequences, FiniteSets, TLC

\* ------------------------------------------------------------------ bounds
\* Number of inbound connections the listener accepts in a run.
NumConns == 2
\* The remotes' declared sizes and stream lengths range MaxExtra around the
\* fixed auth-message length.
MaxExtra == 2
\* A read on an open connection returns up to MaxShort bytes fewer than are
\* there for it.
MaxShort == 1

\* --------------------------------------------------------------- constants
\* p2p.constants.ENCRYPTED_AUTH_MSG_LEN (AUTH_MSG_LEN 194 + ECIES overhead 113)
ENCRYPTED_AUTH_MSG_LEN == 307
\* p2p.constants.HASH_LEN
HASH_LEN == 32

Conns == 1..NumConns

VARIABLES
    runPc,        \* position of run(): the await it is suspended at
    cancel_token, \* self.cancel_token: TRUE once triggered
    _server,      \* self._server: "None", or the state of the listener
    peer_pool,    \* self.peer_pool: [peers, stopped]
    srvTrace,     \* calls made by run() / stop(), in order
    pc,           \* per connection: position of its receive_handshake task
    wire,         \* per connection: the bytes the remote sends in all
    link,         \* per connection: "open", "eof" (remote closed), "reset"
    sock,         \* per connection: the server's socket: "none", "open", "closed"
    msg,          \* per connection: the local variable msg
    readReq,      \* per connection: sizes passed to reader.read, in order
    readGot,      \* per connection: sizes returned by reader.read, in order
    attempts,     \* per connection: the calls of decode_authentication
    written,      \* per connection: what writer.write was given, in order
    trace,        \* per connection: calls made by the task, in order
    hs            \* per connection: the task's other locals once decoded

vars == <<runPc, cancel_token, _server, peer_pool, srvTrace,
          pc, wire, link, sock, msg, readReq, readGot, attempts, written, trace,
          hs>>

\* ------------------------------------------------------------ byte strings
Min(a, b) == IF a < b THEN a ELSE b

\* eth_utils.int_to_big_endian on two bytes: what a remote does to declare d.
int_to_big_endian2(d) == <<(d \div 256) % 256, d % 256>>

\* eth_utils.big_endian_to_int
RECURSIVE big_endian_to_int(_)
big_endian_to_int(bs) ==
    IF Len(bs) = 0 THEN 0
    ELSE 256 * big_endian_to_int(SubSeq(bs, 1, Len(bs) - 1)) + bs[Len(bs)]

\* The first k bytes of payload w.
Prefix(w, k) ==
    [len |-> k,
     head |-> SubSeq(int_to_big_endian2(w.size), 1, Min(k, 2)),
     body |-> w]

\* msg[:2]
FirstTwo(ct) == ct.head

\* What a remote may send.  fmt: a complete plain auth-init, a complete
\* EIP-8 auth-init, or bytes that decrypt under neither ("junk": garbage, or
\* an auth-init cut short).  size: the big-endian value of the first two
\* bytes.  total: the number of bytes sent before the remote stops sending.
\* sig: whether the signature inside recovers a key.
DeclaredSizes ==
    (ENCRYPTED_AUTH_MSG_LEN - 2 - MaxExtra)..(ENCRYPTED_AUTH_MSG_LEN - 2 + MaxExtra)

StreamLengths ==
    {0} \cup (ENCRYPTED_AUTH_MSG_LEN - 1)..(ENCRYPTED_AUTH_MSG_LEN + MaxExtra)

LargestDeclared == ENCRYPTED_AUTH_MSG_LEN - 2 + MaxExtra

PeerMessages(c) ==
    [id : {c}, fmt : {"plain"}, size : {LargestDeclared},
     total : {ENCRYPTED_AUTH_MSG_LEN}, sig : {"good", "bad"}]
    \cup {w \in [id : {c}, fmt : {"eip8"}, size : DeclaredSizes,
                 total : StreamLengths, sig : {"good", "bad"}] :
             w.total = w.size + 2}
    \cup [id : {c}, fmt : {"junk"}, size : DeclaredSizes,
          total : StreamLengths, sig : {"bad"}]

\* The payloads of the runs with several connections: a plain auth-init
\* with a good and with a bad signature, an EIP-8 auth-init, and junk longer
\* than the fixed length.
TypicalMessages(c) ==
    {w \in PeerMessages(c) :
        /\ w.size = LargestDeclared
        /\ w.fmt = "eip8" => w.sig = "good"
        /\ w.fmt = "junk" => w.total = LargestDeclared + 2}

NoMessage == [id |-> 0, fmt |-> "junk", size |-> 0, total |-> 0, sig |-> "bad"]

\* --------------------------------------------------- external collaborators
\* self.privkey
privkey == "server_privkey"

\* A value that is not there (the call raised before producing it).
None == <<"none">>

Failure(kind) ==
    [status |-> kind, sig |-> None, initiator_pubkey |-> None,
     initiator_nonce |-> None]

Decoded(w) ==
    [status |-> "ok", sig |-> <<"sig", w.id, w.sig>>,
     initiator_pubkey |-> <<"initiator_pubkey", w.id>>,
     initiator_nonce |-> <<"initiator_nonce", w.id>>]

\* p2p.auth.decode_auth_plain: decrypts the whole ciphertext; only a complete
\* plain auth-init decrypts.
decode_auth_plain(ciphertext, key) ==
    IF ciphertext.body.fmt = "plain" /\ ciphertext.len = ENCRYPTED_AUTH_MSG_LEN
    THEN Decoded(ciphertext.body)
    ELSE Failure("DecryptionError")

\* p2p.auth.decode_auth_eip8: the first two bytes are the size of what
\* follows them; framing that disagrees with the bytes given is a format
\* error.
decode_auth_eip8(ciphertext, key) ==
    IF ciphertext.body.fmt # "eip8" THEN Failure("DecryptionError")
    ELSE IF ciphertext.len # big_endian_to_int(FirstTwo(ciphertext)) + 2
    THEN Failure("FormatError")
    ELSE Decoded(ciphertext.body)

\* p2p.ecies.ecdh_agree
ecdh_agree(key, pubkey) == <<"ecdh", key, pubkey>>

\* p2p.utils.sxor
sxor(a, b) == <<"sxor", a, b>>

\* eth_keys Signature.recover_public_key_from_msg_hash: a signature that does
\* not recover raises.
recover_public_key_from_msg_hash(sig, msg_hash) ==
    IF sig[3] = "good"
    THEN [status |-> "ok", key |-> <<"ephem_pubkey", sig[2], msg_hash>>]
    ELSE [status |-> "RecoveryError", key |-> None]

\* ----------------------------------------------------- decode_authentication
Raised(kind, calls) ==
    [status |-> kind, calls |-> calls, ephem_pubkey |-> None,
     initiator_nonce |-> None, initiator_pubkey |-> None]

\* DecoderFor without the length check.
DecoderForNoLengthCheck(ciphertext) ==
    IF ciphertext.len <= ENCRYPTED_AUTH_MSG_LEN THEN "decode_auth_plain"
    ELSE "decode_auth_eip8"

\* DecoderFor with the plain branch taken for every length from the fixed
\* one up.
DecoderForLongAsPlain(ciphertext) ==
    IF ciphertext.len < ENCRYPTED_AUTH_MSG_LEN THEN "ValueError"
    ELSE IF ciphertext.len >= ENCRYPTED_AUTH_MSG_LEN THEN "decode_auth_plain"
    ELSE "decode_auth_eip8"

\* The format branch of decode_authentication: which decoder runs.
DecoderFor(ciphertext) ==
    IF ciphertext.len < ENCRYPTED_AUTH_MSG_LEN THEN "ValueError"
    ELSE IF ciphertext.len = ENCRYPTED_AUTH_MSG_LEN THEN "decode_auth_plain"
    ELSE "decode_auth_eip8"

\* RecoveryHash with the shared secret left out of the recovery.
RecoveryHashWithoutSecret(key, d) ==
    sxor(d.initiator_pubkey, d.initiator_nonce)

\* The argument handed to recover_public_key_from_msg_hash.
RecoveryHash(key, d) ==
    sxor(ecdh_agree(key, d.initiator_pubkey), d.initiator_nonce)

\* decode_authentication(ciphertext, privkey): its result or the exception it
\* raises, and the collaborators it called, in order.
decode_authentication(ciphertext, key) ==
    LET which == DecoderFor(ciphertext) IN
    IF which = "ValueError" THEN Raised("ValueError", <<>>)
    ELSE
      LET d == IF which = "decode_auth_plain"
               THEN decode_auth_plain(ciphertext, key)
               ELSE decode_auth_eip8(ciphertext, key)
      IN
      IF d.status # "ok" THEN Raised(d.status, <<which>>)
      ELSE
        LET r == recover_public_key_from_msg_hash(d.sig, RecoveryHash(key, d))
            calls == <<which, "ecdh_agree", "sxor",
                       "recover_public_key_from_msg_hash">>
        IN
        IF r.status # "ok" THEN Raised(r.status, calls)
        ELSE [status |-> "ok", calls |-> calls, ephem_pubkey |-> r.key,
              initiator_nonce |-> d.initiator_nonce,
              initiator_pubkey |-> d.initiator_pubkey]

\* ------------------------------------------------------------- the responder
\* Address(ip, port) of writer.get_extra_info("peername")
remote_address(c) == <<"Address", c>>

\* kademlia.Node(initiator_pubkey, remote_address)
Node(pubkey, address) == <<"Node", pubkey, address>>

\* token_bytes as a nonce kept in the server and used for every connection.
token_bytesShared(c, n) == <<"token_bytes", 0, n>>

\* secrets.token_bytes(n): n fresh random bytes, a new value at every call
\* (one call per task).
token_bytes(c, n) == <<"token_bytes", c, n>>

\* HandshakeResponder.create_auth_ack_message, then encrypt_auth_ack_message
encrypt_auth_ack_message(remote, nonce) == <<"auth_ack", remote, nonce>>

\* HandshakeResponder.derive_secrets: the four secrets are functions of the
\* five arguments; the result is kept as the arguments they are functions of.
derive_secrets(initiator_nonce, responder_nonce, remote_ephemeral_pubkey, auth_init_ciphertext, auth_ack_ciphertext) ==
    [initiator_nonce |-> initiator_nonce,
     responder_nonce |-> responder_nonce,
     remote_ephemeral_pubkey |-> remote_ephemeral_pubkey,
     auth_init_ciphertext |-> auth_init_ciphertext,
     auth_ack_ciphertext |-> auth_ack_ciphertext]

\* ETHPeer(remote, privkey, reader, writer, aes_secret, mac_secret,
\* egress_mac, ingress_mac, ...): secrets stands for the four of them.
ETHPeer(c, remote, key, secrets) ==
    [remote |-> remote, privkey |-> key, reader |-> c, writer |-> c,
     secrets |-> secrets]

NoLocals ==
    [ephem_pubkey |-> None, initiator_nonce |-> None,
     initiator_pubkey |-> None, initiator_remote |-> None,
     responder_nonce |-> None, auth_ack_ciphertext |-> None]

EmptyBytes == [len |-> 0, head |-> <<>>, body |-> NoMessage]

\* ------------------------------------------------------------------- state
Init ==
    /\ runPc = "idle"
    /\ cancel_token = FALSE
    /\ _server = "None"
    /\ peer_pool = [peers |-> {}, stopped |-> FALSE]
    /\ srvTrace = <<>>
    /\ pc = [c \in Conns |-> "unconnected"]
    /\ wire = [c \in Conns |-> NoMessage]
    /\ link = [c \in Conns |-> "open"]
    /\ sock = [c \in Conns |-> "none"]
    /\ msg = [c \in Conns |-> EmptyBytes]
    /\ readReq = [c \in Conns |-> <<>>]
    /\ readGot = [c \in Conns |-> <<>>]
    /\ attempts = [c \in Conns |-> <<>>]
    /\ written = [c \in Conns |-> <<>>]
    /\ trace = [c \in Conns |-> <<>>]
    /\ hs = [c \in Conns |-> NoLocals]

\* ------------------------------------------------------- run / start / stop
\* run() is called: it awaits start(), which awaits asyncio.start_server.
RunBegin ==
    /\ runPc = "idle"
    /\ runPc' = "start"
    /\ srvTrace' = Append(srvTrace, "start")
    /\ UNCHANGED <<cancel_token, _server, peer_pool, pc, wire, link, sock,
                   msg, readReq, readGot, attempts, written, trace, hs>>

\* start_server returns the listener; run() goes on to await
\* cancel_token.wait().
StartDone ==
    /\ runPc = "start"
    /\ _server' = "listening"
    /\ runPc' = "wait"
    /\ srvTrace' = Append(srvTrace, "wait")
    /\ UNCHANGED <<cancel_token, peer_pool, pc, wire, link, sock,
                   msg, readReq, readGot, attempts, written, trace, hs>>

\* start_server raises (the address cannot be bound): run() ends with it.
StartFailed ==
    /\ runPc = "start"
    /\ runPc' = "bind_error"
    /\ srvTrace' = Append(srvTrace, "OSError")
    /\ UNCHANGED <<cancel_token, _server, peer_pool, pc, wire, link, sock,
                   msg, readReq, readGot, attempts, written, trace, hs>>

\* Any holder of the token triggers it.
Trigger ==
    /\ ~cancel_token
    /\ cancel_token' = TRUE
    /\ UNCHANGED <<runPc, _server, peer_pool, srvTrace, pc, wire, link, sock,
                   msg, readReq, readGot, attempts, written, trace, hs>>

\* WaitDone with the pool asked to stop before wait_closed() is awaited.
WaitDoneStopsPool ==
    /\ runPc = "wait"
    /\ cancel_token
    /\ cancel_token' = TRUE
    /\ _server' = "closing"
    /\ peer_pool' = [peer_pool EXCEPT !.stopped = TRUE]
    /\ runPc' = "wait_closed"
    /\ srvTrace' = srvTrace \o <<"stop", "trigger", "close", "peer_pool.stop",
                                  "wait_closed">>
    /\ UNCHANGED <<pc, wire, link, sock, msg, readReq, readGot, attempts, written,
                   trace, hs>>

\* WaitDone with run() going on to stop() without the token being triggered.
WaitDoneWithoutWaiting ==
    /\ runPc = "wait"
    /\ cancel_token' = TRUE
    /\ _server' = "closing"
    /\ runPc' = "wait_closed"
    /\ srvTrace' = srvTrace \o <<"stop", "trigger", "close", "wait_closed">>
    /\ UNCHANGED <<peer_pool, pc, wire, link, sock, msg, readReq, readGot, attempts,
                   written, trace, hs>>

\* WaitDone with stop() going on to wait_closed() without closing the
\* listener.
WaitDoneWithoutClose ==
    /\ runPc = "wait"
    /\ cancel_token
    /\ cancel_token' = TRUE
    /\ _server' = _server
    /\ runPc' = "wait_closed"
    /\ srvTrace' = srvTrace \o <<"stop", "trigger", "wait_closed">>
    /\ UNCHANGED <<peer_pool, pc, wire, link, sock, msg, readReq, readGot, attempts,
                   written, trace, hs>>

\* cancel_token.wait() returns; run() calls stop(), which runs up to its
\* first await: trigger the token, close the listener, await wait_closed().
WaitDone ==
    /\ runPc = "wait"
    /\ cancel_token
    /\ cancel_token' = TRUE
    /\ _server' = "closing"
    /\ runPc' = "wait_closed"
    /\ srvTrace' = srvTrace \o <<"stop", "trigger", "close", "wait_closed">>
    /\ UNCHANGED <<peer_pool, pc, wire, link, sock,
                   msg, readReq, readGot, attempts, written, trace, hs>>

\* The event loop releases the closed listener's sockets.
ListenerReleased ==
    /\ _server = "closing"
    /\ _server' = "closed"
    /\ UNCHANGED <<runPc, cancel_token, peer_pool, srvTrace, pc, wire,
                   link, sock, msg, readReq, readGot, attempts, written, trace, hs>>

\* wait_closed() returns; stop() awaits peer_pool.stop().
WaitClosedDone ==
    /\ runPc = "wait_closed"
    /\ _server = "closed"
    /\ peer_pool' = [peer_pool EXCEPT !.stopped = TRUE]
    /\ runPc' = "pool_stop"
    /\ srvTrace' = srvTrace \o <<"wait_closed_done", "peer_pool.stop">>
    /\ UNCHANGED <<cancel_token, _server, pc, wire, link, sock,
                   msg, readReq, readGot, attempts, written, trace, hs>>

\* peer_pool.stop() returns; stop() and run() return.
PoolStopDone ==
    /\ runPc = "pool_stop"
    /\ runPc' = "returned"
    /\ srvTrace' = Append(srvTrace, "return")
    /\ UNCHANGED <<cancel_token, _server, peer_pool, pc, wire, link, sock,
                   msg, readReq, readGot, attempts, written, trace, hs>>

\* ------------------------------------------------------------- the remotes
\* The listener accepts a connection whose remote sends w, and starts its
\* receive_handshake task, which runs to its first await:
\* reader.read(ENCRYPTED_AUTH_MSG_LEN).
AcceptWith(c, w) ==
    /\ _server = "listening"
    /\ pc[c] = "unconnected"
    /\ \A b \in Conns : b < c => pc[b] # "unconnected"
    /\ wire' = [wire EXCEPT ![c] = w]
    /\ pc' = [pc EXCEPT ![c] = "read1"]
    /\ sock' = [sock EXCEPT ![c] = "open"]
    /\ readReq' = [readReq EXCEPT ![c] = <<ENCRYPTED_AUTH_MSG_LEN>>]
    /\ trace' = [trace EXCEPT ![c] = <<"read">>]
    /\ UNCHANGED <<runPc, cancel_token, _server, peer_pool, srvTrace,
                   link, msg, readGot, attempts, written, hs>>

\* A connection of a run with several connections.
Accept(c) == \E w \in TypicalMessages(c) : AcceptWith(c, w)

\* The connection of a run with one connection.
AcceptOne == \E w \in PeerMessages(1) : AcceptWith(1, w)

\* The remote has sent its bytes and closes its end while the task awaits
\* a read: the reader sees EOF once its buffer is empty.
PeerClose(c) ==
    /\ pc[c] \in {"read1", "read2"}
    /\ link[c] = "open"
    /\ link' = [link EXCEPT ![c] = "eof"]
    /\ UNCHANGED <<runPc, cancel_token, _server, peer_pool, srvTrace, pc,
                   wire, sock, msg, readReq, readGot, attempts, written, trace, hs>>

\* ------------------------------------------------------ StreamReader.read(n)
\* Bytes of the remote's stream not yet taken by a read.
Unread(c) == wire[c].total - msg[c].len

\* The numbers of bytes await reader.read(n) may return.  n = 0: none, at
\* once.  n < 0: all there is, once the remote closed.  n > 0: as soon as
\* bytes are buffered, those bytes, at most n (on an open connection any part
\* of the stream may have arrived); nothing at EOF.
ReadResults(c, n) ==
    IF n = 0 THEN {0}
    ELSE IF n < 0 THEN (IF link[c] = "eof" THEN {Unread(c)} ELSE {})
    ELSE IF link[c] = "eof" THEN {Min(n, Unread(c))}
    ELSE {k \in 1..Min(n, Unread(c)) : k >= Min(n, Unread(c)) - MaxShort}

\* --------------------------------------------------------- receive_handshake
\* remaining_bytes = big_endian_to_int(msg[:2]) - ENCRYPTED_AUTH_MSG_LEN + 2
remaining_bytes(m) ==
    big_endian_to_int(FirstTwo(m)) - ENCRYPTED_AUTH_MSG_LEN + 2

\* What a call of decode_authentication on m that gave r leaves behind.
Attempt(m, r) == [len |-> m.len, status |-> r.status, calls |-> r.calls]

\* The calls a decode attempt adds to the task's trace.
AttemptCalls(r) ==
    <<"read_done", "decode_authentication">> \o r.calls
      \o (IF r.status = "ok" THEN <<>> ELSE <<r.status>>)

\* Abandon with the half-built peer handed to the pool on the way out.
AbandonRegisters(c, exc) ==
    /\ pc' = [pc EXCEPT ![c] = "failed"]
    /\ trace' = [trace EXCEPT ![c] = Append(trace[c], exc)]
    /\ peer_pool' = [peer_pool EXCEPT !.peers =
                        @ \cup {ETHPeer(c, hs[c].initiator_remote, privkey, None)}]
    /\ UNCHANGED <<runPc, cancel_token, _server, srvTrace, wire,
                   msg, readReq, readGot, attempts, written, hs>>

\* The task ends with the uncaught exception exc; asyncio logs it and nothing
\* of the server is touched.
Abandon(c, exc) ==
    /\ pc' = [pc EXCEPT ![c] = "failed"]
    /\ trace' = [trace EXCEPT ![c] = Append(trace[c], exc)]
    /\ UNCHANGED <<runPc, cancel_token, _server, srvTrace, peer_pool, wire,
                   msg, readReq, readGot, attempts, written, hs>>

\* DecodeFailed with the exception reaching a handler that triggers the
\* server's token.
DecodeFailedTriggersToken(c, m, k, r) ==
    /\ pc' = [pc EXCEPT ![c] = "failed"]
    /\ msg' = [msg EXCEPT ![c] = m]
    /\ readGot' = [readGot EXCEPT ![c] = Append(readGot[c], k)]
    /\ attempts' = [attempts EXCEPT ![c] = Append(attempts[c], Attempt(m, r))]
    /\ trace' = [trace EXCEPT ![c] = trace[c] \o AttemptCalls(r)]
    /\ cancel_token' = TRUE
    /\ UNCHANGED <<runPc, _server, srvTrace, peer_pool, wire,
                   link, sock, readReq, written, hs>>

\* DecodeFailed with an error reply written to the remote before the task
\* ends.
DecodeFailedWritesReply(c, m, k, r) ==
    /\ pc' = [pc EXCEPT ![c] = "failed"]
    /\ msg' = [msg EXCEPT ![c] = m]
    /\ readGot' = [readGot EXCEPT ![c] = Append(readGot[c], k)]
    /\ attempts' = [attempts EXCEPT ![c] = Append(attempts[c], Attempt(m, r))]
    /\ written' = [written EXCEPT ![c] = Append(written[c], <<"error", r.status>>)]
    /\ trace' = [trace EXCEPT ![c] = trace[c] \o AttemptCalls(r) \o <<"write">>]
    /\ UNCHANGED <<runPc, cancel_token, _server, srvTrace, peer_pool, wire,
                   link, sock, readReq, hs>>

\* decode_authentication raised something the task does not catch.
DecodeFailed(c, m, k, r) ==
    /\ pc' = [pc EXCEPT ![c] = "failed"]
    /\ msg' = [msg EXCEPT ![c] = m]
    /\ readGot' = [readGot EXCEPT ![c] = Append(readGot[c], k)]
    /\ attempts' = [attempts EXCEPT ![c] = Append(attempts[c], Attempt(m, r))]
    /\ trace' = [trace EXCEPT ![c] = trace[c] \o AttemptCalls(r)]
    /\ UNCHANGED <<runPc, cancel_token, _server, srvTrace, peer_pool, wire,
                   link, sock, readReq, written, hs>>

\* except DecryptionError: compute the remainder from the first two bytes and
\* await reader.read(remaining_bytes).
Fallback(c, m, k, r) ==
    /\ pc' = [pc EXCEPT ![c] = "read2"]
    /\ msg' = [msg EXCEPT ![c] = m]
    /\ readGot' = [readGot EXCEPT ![c] = Append(readGot[c], k)]
    /\ attempts' = [attempts EXCEPT ![c] = Append(attempts[c], Attempt(m, r))]
    /\ readReq' = [readReq EXCEPT ![c] = Append(readReq[c], remaining_bytes(m))]
    /\ trace' = [trace EXCEPT ![c] =
                    trace[c] \o AttemptCalls(r) \o <<"big_endian_to_int", "read">>]
    /\ UNCHANGED <<runPc, cancel_token, _server, srvTrace, peer_pool, wire,
                   link, sock, written, hs>>

\* AckCalls with derive_secrets called before the drain is awaited.
AckCallsDeriveBeforeDrain ==
    <<"get_extra_info", "Node", "HandshakeResponder", "token_bytes",
      "create_auth_ack_message", "encrypt_auth_ack_message", "write",
      "derive_secrets", "drain">>

\* The calls from the successful decode to the first await after it.
AckCalls ==
    <<"get_extra_info", "Node", "HandshakeResponder", "token_bytes",
      "create_auth_ack_message", "encrypt_auth_ack_message", "write", "drain">>

\* Decoding succeeded: build the responder, create and encrypt the ack, write
\* it and await writer.drain().
SendAck(c, m, k, r) ==
    LET initiator_remote == Node(r.initiator_pubkey, remote_address(c))
        nonce == token_bytes(c, HASH_LEN)
        auth_ack_ciphertext == encrypt_auth_ack_message(initiator_remote, nonce)
    IN
    /\ pc' = [pc EXCEPT ![c] = "drain"]
    /\ msg' = [msg EXCEPT ![c] = m]
    /\ readGot' = [readGot EXCEPT ![c] = Append(readGot[c], k)]
    /\ attempts' = [attempts EXCEPT ![c] = Append(attempts[c], Attempt(m, r))]
    /\ hs' = [hs EXCEPT ![c] =
                [ephem_pubkey |-> r.ephem_pubkey,
                 initiator_nonce |-> r.initiator_nonce,
                 initiator_pubkey |-> r.initiator_pubkey,
                 initiator_remote |-> initiator_remote,
                 responder_nonce |-> nonce,
                 auth_ack_ciphertext |-> auth_ack_ciphertext]]
    /\ written' = [written EXCEPT ![c] = Append(written[c], auth_ack_ciphertext)]
    /\ trace' = [trace EXCEPT ![c] = trace[c] \o AttemptCalls(r) \o AckCalls]
    /\ UNCHANGED <<runPc, cancel_token, _server, srvTrace, peer_pool, wire,
                   link, sock, readReq>>

\* FirstAttempt with an except clause that catches every exception.
FirstAttemptCatchesAll(c, m, k, r) ==
    IF r.status = "ok" THEN SendAck(c, m, k, r)
    ELSE Fallback(c, m, k, r)

\* What the try / except does with the result r of the first decode.
FirstAttempt(c, m, k, r) ==
    IF r.status = "ok" THEN SendAck(c, m, k, r)
    ELSE IF r.status = "DecryptionError" THEN Fallback(c, m, k, r)
    ELSE DecodeFailed(c, m, k, r)

\* What the except block does with the result r of the second decode.
SecondAttempt(c, m, k, r) ==
    IF r.status = "ok" THEN SendAck(c, m, k, r)
    ELSE DecodeFailed(c, m, k, r)

\* ReadAuthInit with the task giving up when the token has been triggered.
ReadAuthInitUnlessCancelled(c) ==
    /\ pc[c] = "read1"
    /\ link[c] # "reset"
    /\ IF cancel_token
       THEN Abandon(c, "OperationCancelled") /\ UNCHANGED <<link, sock>>
       ELSE \E k \in ReadResults(c, ENCRYPTED_AUTH_MSG_LEN) :
              LET m == Prefix(wire[c], k)
              IN FirstAttempt(c, m, k, decode_authentication(m, privkey))

\* The first read returns: msg = await reader.read(ENCRYPTED_AUTH_MSG_LEN),
\* then the try block.
ReadAuthInit(c) ==
    /\ pc[c] = "read1"
    /\ link[c] # "reset"
    /\ \E k \in ReadResults(c, ENCRYPTED_AUTH_MSG_LEN) :
         LET m == Prefix(wire[c], k)
         IN FirstAttempt(c, m, k, decode_authentication(m, privkey))

\* The second read returns: msg += await reader.read(remaining_bytes), then
\* the second decode.
ReadRemainder(c) ==
    /\ pc[c] = "read2"
    /\ link[c] # "reset"
    /\ \E k \in ReadResults(c, readReq[c][2]) :
         LET m == Prefix(wire[c], msg[c].len + k)
         IN SecondAttempt(c, m, k, decode_authentication(m, privkey))

\* The connection is reset while the task awaits a read: the transport
\* closes its socket on the lost connection and the read raises.
ReadRaises(c) ==
    /\ pc[c] \in {"read1", "read2"}
    /\ link[c] = "open"
    /\ link' = [link EXCEPT ![c] = "reset"]
    /\ sock' = [sock EXCEPT ![c] = "closed"]
    /\ Abandon(c, "ConnectionResetError")

\* The connection is reset while the task awaits drain(): the transport
\* closes its socket on the lost connection and drain() raises.
DrainRaises(c) ==
    /\ pc[c] = "drain"
    /\ link[c] = "open"
    /\ link' = [link EXCEPT ![c] = "reset"]
    /\ sock' = [sock EXCEPT ![c] = "closed"]
    /\ Abandon(c, "ConnectionResetError")

\* FinishCalls with the secrets derived a second time for the peer.
FinishCallsDeriveTwice ==
    <<"drain_done", "derive_secrets", "derive_secrets", "ETHPeer", "add_peer">>

\* The calls from the return of drain() to the end of the task.
FinishCalls == <<"drain_done", "derive_secrets", "ETHPeer", "add_peer">>

\* Drained with derive_secrets given the buffer of the first read instead
\* of the buffer that was decoded.
DrainedWithFirstRead(c) ==
    /\ pc[c] = "drain"
    /\ link[c] # "reset"
    /\ LET secrets == derive_secrets(hs[c].initiator_nonce,
                                     hs[c].responder_nonce,
                                     hs[c].ephem_pubkey,
                                     Prefix(wire[c], readGot[c][1]),
                                     hs[c].auth_ack_ciphertext)
           eth_peer == ETHPeer(c, hs[c].initiator_remote, privkey, secrets)
       IN peer_pool' = [peer_pool EXCEPT !.peers = @ \cup {eth_peer}]
    /\ pc' = [pc EXCEPT ![c] = "done"]
    /\ trace' = [trace EXCEPT ![c] = trace[c] \o FinishCalls]
    /\ UNCHANGED <<runPc, cancel_token, _server, srvTrace, wire, link, sock,
                   msg, readReq, readGot, attempts, written, hs>>

\* drain() returns: derive the secrets, construct the peer, add it to the
\* pool; the task ends.
Drained(c) ==
    /\ pc[c] = "drain"
    /\ link[c] # "reset"
    /\ LET secrets == derive_secrets(hs[c].initiator_nonce,
                                     hs[c].responder_nonce,
                                     hs[c].ephem_pubkey,
                                     msg[c],
                                     hs[c].auth_ack_ciphertext)
           eth_peer == ETHPeer(c, hs[c].initiator_remote, privkey, secrets)
       IN peer_pool' = [peer_pool EXCEPT !.peers = @ \cup {eth_peer}]
    /\ pc' = [pc EXCEPT ![c] = "done"]
    /\ trace' = [trace EXCEPT ![c] = trace[c] \o FinishCalls]
    /\ UNCHANGED <<runPc, cancel_token, _server, srvTrace, wire, link, sock,
                   msg, readReq, readGot, attempts, written, hs>>

\* ----------------------------------------------------------- specification
\* The steps of run() and stop(), and of whoever triggers the token.
Lifecycle ==
    \/ RunBegin
    \/ StartDone
    \/ StartFailed
    \/ Trigger
    \/ WaitDone
    \/ ListenerReleased
    \/ WaitClosedDone
    \/ PoolStopDone

\* The steps of the handshake tasks and of their remotes.
Handshakes ==
    \/ \E c \in Conns : PeerClose(c)
    \/ \E c \in Conns : ReadAuthInit(c)
    \/ \E c \in Conns : ReadRemainder(c)
    \/ \E c \in Conns : ReadRaises(c)
    \/ \E c \in Conns : DrainRaises(c)
    \/ \E c \in Conns : Drained(c)

\* The server with NumConns concurrent connections.
Next ==
    \/ Lifecycle
    \/ \E c \in Conns : Accept(c)
    \/ Handshakes

Spec == Init /\ [][Next]_vars

\* The server with one connection, whose remote sends any of PeerMessages.
HandshakeNext ==
    \/ Lifecycle
    \/ AcceptOne
    \/ Handshakes

HandshakeSpec == Init /\ [][HandshakeNext]_vars

\* The server with one connection and a fair event loop: a callback that is
\* ready is run, and what run() awaits from asyncio and the pool completes.
FairSpec ==
    /\ HandshakeSpec
    /\ WF_vars(StartDone \/ StartFailed)
    /\ WF_vars(WaitDone)
    /\ WF_vars(ListenerReleased)
    /\ WF_vars(WaitClosedDone)
    /\ WF_vars(PoolStopDone)

\* ------------------------------------------------------------------ claims
\* Position of the first x in the sequence t; 0 when x is not in t.
Pos(t, x) ==
    IF \E i \in 1..Len(t) : t[i] = x
    THEN CHOOSE i \in 1..Len(t) : t[i] = x /\ \A j \in 1..(i - 1) : t[j] # x
    ELSE 0

\* Number of times x is in the sequence t.
Count(t, x) == Cardinality({i \in 1..Len(t) : t[i] = x})

\* The peers the pool holds for connection c.
PeersOf(c) == {p \in peer_pool.peers : p.reader = c}

\* C1: in every handshake the auth-ack ciphertext is written and the drain
\* of that write has returned before derive_secrets is called, derive_secrets
\* is called before the peer is constructed, and add_peer is the last call
\* of the task; each of these calls is made once, and none is made while
\* the task still awaits the drain.
C1_AckDrainedBeforeDerive ==
    \A c \in Conns :
      LET t == trace[c] IN
      /\ (pc[c] = "drain") =>
            /\ t[Len(t)] = "drain"
            /\ Pos(t, "derive_secrets") = 0
            /\ Pos(t, "ETHPeer") = 0
            /\ Pos(t, "add_peer") = 0
      /\ (Pos(t, "derive_secrets") > 0 \/ Pos(t, "ETHPeer") > 0
            \/ Pos(t, "add_peer") > 0 \/ PeersOf(c) # {}) =>
            /\ 0 < Pos(t, "encrypt_auth_ack_message")
            /\ Pos(t, "encrypt_auth_ack_message") < Pos(t, "write")
            /\ Pos(t, "write") + 1 = Pos(t, "drain")
            /\ Pos(t, "drain") + 1 = Pos(t, "drain_done")
            /\ Pos(t, "drain_done") + 1 = Pos(t, "derive_secrets")
            /\ Pos(t, "derive_secrets") + 1 = Pos(t, "ETHPeer")
            /\ Pos(t, "ETHPeer") + 1 = Pos(t, "add_peer")
            /\ Pos(t, "add_peer") = Len(t)
            /\ \A x \in {"write", "drain", "drain_done", "derive_secrets",
                         "ETHPeer", "add_peer"} : Count(t, x) = 1
            /\ written[c] = <<hs[c].auth_ack_ciphertext>>

\* A handshake that went through the fallback and registered its peer.
C1_Witness ==
    /\ pc[1] = "done"
    /\ Len(attempts[1]) = 2
    /\ PeersOf(1) # {}
    /\ trace[1][Len(trace[1])] = "add_peer"

\* The exceptions a task's trace may name.
Exceptions ==
    {"ValueError", "DecryptionError", "FormatError", "RecoveryError",
     "ConnectionResetError"}

\* The exception a task ended with: the last entry of a failed task's trace.
EndedWith(c) == trace[c][Len(trace[c])]

\* C2: a handshake that failed, at whatever step (short read and length
\* error, decryption failure of the second decode, format error, key
\* recovery failure, a read or the drain raising), has no peer in the pool;
\* the pool holds a peer only for a connection whose task ended normally
\* after its last decode succeeded, the ack was written and flushed and the
\* secrets were derived, and the only exception in that task was a caught
\* DecryptionError of the first decode.
C2_NoPeerForFailedHandshake ==
    \A c \in Conns :
      /\ pc[c] = "failed" => PeersOf(c) = {} /\ EndedWith(c) \in Exceptions
      /\ pc[c] \in {"unconnected", "read1", "read2", "drain"} => PeersOf(c) = {}
      /\ PeersOf(c) # {} =>
            /\ pc[c] = "done"
            /\ attempts[c] # <<>>
            /\ attempts[c][Len(attempts[c])].status = "ok"
            /\ \A i \in 1..(Len(attempts[c]) - 1) :
                  attempts[c][i].status = "DecryptionError"
            /\ \A x \in Exceptions \ {"DecryptionError"} : Count(trace[c], x) = 0
            /\ Count(trace[c], "DecryptionError") = Len(attempts[c]) - 1
            /\ written[c] = <<hs[c].auth_ack_ciphertext>>
            /\ Count(trace[c], "drain_done") = 1
            /\ Count(trace[c], "derive_secrets") = 1
            /\ Cardinality(PeersOf(c)) = 1

\* One connection failed in its second decode and has no peer; the other
\* was registered.
C2_Witness ==
    \E c, d \in Conns :
      /\ pc[c] = "failed"
      /\ Len(attempts[c]) = 2
      /\ EndedWith(c) = "DecryptionError"
      /\ PeersOf(c) = {}
      /\ pc[d] = "done"
      /\ PeersOf(d) # {}

\* The state of the tasks and remotes other than c is left as it is.
OthersUntouched(c) ==
    \A o \in Conns \ {c} :
      /\ pc'[o] = pc[o]
      /\ wire'[o] = wire[o]
      /\ link'[o] = link[o]
      /\ sock'[o] = sock[o]
      /\ msg'[o] = msg[o]
      /\ readReq'[o] = readReq[o]
      /\ readGot'[o] = readGot[o]
      /\ attempts'[o] = attempts[o]
      /\ written'[o] = written[o]
      /\ trace'[o] = trace[o]
      /\ hs'[o] = hs[o]

\* The step a task that awaits can take does not depend on the other tasks.
CanGoOn(o) ==
    /\ pc[o] = "read1" /\ link[o] # "reset"
         /\ ReadResults(o, ENCRYPTED_AUTH_MSG_LEN) # {}
         => ENABLED ReadAuthInit(o)
    /\ pc[o] = "read2" /\ link[o] # "reset"
         /\ ReadResults(o, readReq[o][2]) # {}
         => ENABLED ReadRemainder(o)
    /\ pc[o] = "drain" /\ link[o] # "reset" => ENABLED Drained(o)

\* C3: the step in which a handshake fails leaves the cancellation token,
\* the listener, the peer pool and run() as they are, and leaves every other
\* connection's task as it is; and whatever has failed, a task whose read or
\* drain can return is able to take its next step, up to registering its
\* peer.
C3_FailureIsolated ==
    /\ [][\A c \in Conns :
            (pc[c] # "failed" /\ pc'[c] = "failed") =>
               /\ cancel_token' = cancel_token
               /\ _server' = _server
               /\ peer_pool' = peer_pool
               /\ runPc' = runPc
               /\ srvTrace' = srvTrace
               /\ OthersUntouched(c)]_vars
    /\ [](\A o \in Conns : CanGoOn(o))

\* One handshake has failed; the server still listens with its token
\* untriggered and its pool running, and the other handshake went on to
\* register its peer.
C3_Witness ==
    \E c, d \in Conns :
      /\ pc[c] = "failed"
      /\ pc[d] = "done"
      /\ PeersOf(d) # {}
      /\ ~cancel_token
      /\ _server = "listening"
      /\ ~peer_pool.stopped

\* C4: the first decode failing with a DecryptionError is what makes the
\* task request a further read, and it requests exactly one; the decode is
\* retried exactly once when that read returns (a connection reset during it
\* ends the task before the retry), so there are never more than two reads
\* and two decodes; a retry that fails, with a DecryptionError or anything
\* else, ends the task; and a first decode that fails with any other
\* exception ends the task after one read and one decode.
C4_OneFallback ==
    \A c \in Conns :
      LET a == attempts[c]
          n == Len(attempts[c])
          fellBack == n >= 1 /\ a[1].status = "DecryptionError"
      IN
      /\ n <= 2
      /\ Len(readReq[c]) <= 2
      /\ Count(trace[c], "decode_authentication") = n
      /\ Count(trace[c], "read") = Len(readReq[c])
      /\ Count(trace[c], "read_done") = Len(readGot[c])
      /\ (Len(readReq[c]) = 2) <=> fellBack
      /\ fellBack =>
            \/ pc[c] = "read2" /\ n = 1 /\ Len(readGot[c]) = 1
            \/ pc[c] \in {"drain", "done", "failed"}
                 /\ n = 2 /\ Len(readGot[c]) = 2
            \/ pc[c] = "failed" /\ EndedWith(c) = "ConnectionResetError"
                 /\ link[c] = "reset" /\ n = 1 /\ Len(readGot[c]) = 1
      /\ (n = 2 /\ a[2].status # "ok") =>
            pc[c] = "failed" /\ EndedWith(c) = a[2].status
      /\ (n >= 1 /\ a[1].status \notin {"ok", "DecryptionError"}) =>
            /\ pc[c] = "failed"
            /\ EndedWith(c) = a[1].status
            /\ n = 1
            /\ Len(readReq[c]) = 1

\* A retry that failed with a DecryptionError: the task is over after two
\* reads and two decodes.
C4_Witness ==
    /\ pc[1] = "failed"
    /\ Len(attempts[1]) = 2
    /\ attempts[1][1].status = "DecryptionError"
    /\ attempts[1][2].status = "DecryptionError"
    /\ Len(readReq[1]) = 2

\* C5: a decode_authentication call on a ciphertext shorter than
\* ENCRYPTED_AUTH_MSG_LEN raises the length error (ValueError) without
\* calling the plain decoder, the EIP-8 decoder, ecdh_agree or the key
\* recovery; in receive_handshake it is the first decode, the task ends with
\* that error, no further read is requested and no peer is registered.
C5_ShortCiphertextRejected ==
    \A c \in Conns :
      /\ \A i \in 1..Len(attempts[c]) :
            attempts[c][i].len < ENCRYPTED_AUTH_MSG_LEN =>
               /\ attempts[c][i].status = "ValueError"
               /\ attempts[c][i].calls = <<>>
               /\ i = 1
               /\ Len(attempts[c]) = 1
               /\ pc[c] = "failed"
               /\ EndedWith(c) = "ValueError"
               /\ Len(readReq[c]) = 1
               /\ PeersOf(c) = {}
      /\ (attempts[c] # <<>> /\ attempts[c][1].status = "ValueError") =>
            /\ attempts[c][1].len < ENCRYPTED_AUTH_MSG_LEN
            /\ trace[c] = <<"read", "read_done", "decode_authentication",
                            "ValueError">>

\* A short read on a connection the remote has not closed: the buffer is
\* one byte short and the task has ended.
C5_Witness ==
    /\ attempts[1] # <<>>
    /\ attempts[1][1].len = ENCRYPTED_AUTH_MSG_LEN - 1
    /\ pc[1] = "failed"

\* C6: a decode_authentication call on a ciphertext of exactly
\* ENCRYPTED_AUTH_MSG_LEN bytes calls the plain decoder first and never the
\* EIP-8 decoder, and when the plain decoder raises, that is all it calls;
\* a call on a longer ciphertext calls the EIP-8 decoder first and never the
\* plain decoder.
C6_DecoderByLength ==
    \A c \in Conns :
      \A i \in 1..Len(attempts[c]) :
        LET a == attempts[c][i] IN
        /\ a.len = ENCRYPTED_AUTH_MSG_LEN =>
              /\ a.calls # <<>>
              /\ a.calls[1] = "decode_auth_plain"
              /\ Count(a.calls, "decode_auth_plain") = 1
              /\ Count(a.calls, "decode_auth_eip8") = 0
              /\ a.status = "DecryptionError" => a.calls = <<"decode_auth_plain">>
        /\ a.len > ENCRYPTED_AUTH_MSG_LEN =>
              /\ a.calls # <<>>
              /\ a.calls[1] = "decode_auth_eip8"
              /\ Count(a.calls, "decode_auth_eip8") = 1
              /\ Count(a.calls, "decode_auth_plain") = 0

\* A plain decode that failed on a buffer of the fixed length, followed by an
\* EIP-8 decode of a longer buffer that succeeded.
C6_Witness ==
    /\ Len(attempts[1]) = 2
    /\ attempts[1][1].len = ENCRYPTED_AUTH_MSG_LEN
    /\ attempts[1][1].calls = <<"decode_auth_plain">>
    /\ attempts[1][2].len > ENCRYPTED_AUTH_MSG_LEN
    /\ attempts[1][2].status = "ok"

\* C7: after a DecryptionError of the first decode the task requests exactly
\* one further read, of big_endian_to_int(msg[:2]) - ENCRYPTED_AUTH_MSG_LEN
\* + 2 bytes; and when the remote sends a complete EIP-8 auth-init, longer
\* than the fixed length, whose first two bytes declare its size accurately,
\* the buffer of the retry has the declared size plus 2 bytes and the EIP-8
\* decode succeeds.
C7_RemainderReadAndDecoded ==
    \A c \in Conns :
      LET declared == big_endian_to_int(FirstTwo(msg[c])) IN
      /\ Len(readReq[c]) <= 2
      /\ Len(readReq[c]) = 2 =>
            /\ attempts[c][1].status = "DecryptionError"
            /\ readReq[c][2] = declared - ENCRYPTED_AUTH_MSG_LEN + 2
      /\ (/\ Len(attempts[c]) = 2
          /\ wire[c].fmt = "eip8"
          /\ wire[c].total = declared + 2
          /\ wire[c].total > ENCRYPTED_AUTH_MSG_LEN) =>
            /\ attempts[c][2].len = declared + 2
            /\ attempts[c][2].calls # <<>>
            /\ attempts[c][2].calls[1] = "decode_auth_eip8"
            /\ attempts[c][2].status \in {"ok", "RecoveryError"}

\* C8: whatever the interleaving of the handshakes, a task calls
\* derive_secrets at most once, exactly once when its connection has a peer
\* in the pool, and only after the auth-ack ciphertext was produced by
\* encrypt_auth_ack_message (and written); the secrets of the registered
\* peer are those derived from that ciphertext.
C8_SecretsDerivedOnce ==
    \A c \in Conns :
      LET t == trace[c] IN
      /\ Count(t, "derive_secrets") <= 1
      /\ PeersOf(c) # {} <=> Count(t, "derive_secrets") = 1
      /\ pc[c] = "done" <=> Count(t, "derive_secrets") = 1
      /\ Count(t, "derive_secrets") = 1 =>
            /\ 0 < Pos(t, "encrypt_auth_ack_message")
            /\ Pos(t, "encrypt_auth_ack_message") < Pos(t, "derive_secrets")
            /\ Count(t, "encrypt_auth_ack_message") = 1
            /\ hs[c].auth_ack_ciphertext # None
            /\ written[c] = <<hs[c].auth_ack_ciphertext>>
            /\ \A p \in PeersOf(c) :
                  p.secrets.auth_ack_ciphertext = hs[c].auth_ack_ciphertext
      /\ hs[c].auth_ack_ciphertext = None => Count(t, "derive_secrets") = 0

\* Two handshakes of one run ran to their end, each having derived its
\* secrets once.
C8_Witness ==
    /\ pc[1] = "done"
    /\ pc[2] = "done"
    /\ Count(trace[1], "derive_secrets") = 1
    /\ Count(trace[2], "derive_secrets") = 1
    /\ Cardinality(peer_pool.peers) = 2

\* C9: stop() triggers the token, then closes the listener, then awaits
\* wait_closed(), and asks the pool to stop only when wait_closed() has
\* returned: the pool is asked to stop only with the token triggered and the
\* listener closed and released, never while the listener is open or still
\* closing.
C9_StopOrder ==
    LET t == srvTrace IN
    /\ \A x \in {"stop", "trigger", "close", "wait_closed",
                 "wait_closed_done", "peer_pool.stop"} : Count(t, x) <= 1
    /\ Pos(t, "stop") > 0 =>
          /\ Pos(t, "trigger") = Pos(t, "stop") + 1
          /\ Pos(t, "close") = Pos(t, "trigger") + 1
          /\ Pos(t, "wait_closed") = Pos(t, "close") + 1
          /\ cancel_token
          /\ _server \in {"closing", "closed"}
    /\ Pos(t, "peer_pool.stop") > 0 =>
          /\ Pos(t, "wait_closed_done") = Pos(t, "wait_closed") + 1
          /\ Pos(t, "peer_pool.stop") = Pos(t, "wait_closed_done") + 1
    /\ peer_pool.stopped <=> Pos(t, "peer_pool.stop") > 0
    /\ peer_pool.stopped => cancel_token /\ _server = "closed"
    /\ runPc = "wait_closed" => ~peer_pool.stopped

\* stop() has run to its end.
C9_Witness ==
    /\ runPc = "returned"
    /\ peer_pool.stopped
    /\ _server = "closed"

\* C10: run() starts the listener before anything else; it enters stop() only
\* when the token has been triggered (by whoever); it enters stop() at most
\* once, and exactly once before it returns; and once the token is triggered
\* and the listener is up, run() eventually returns, the pool having been
\* asked to stop.
C10_RunStopsAfterTrigger ==
    /\ [](runPc \in {"wait", "wait_closed", "pool_stop", "returned"} =>
            /\ Pos(srvTrace, "start") = 1
            /\ _server # "None")
    /\ [](_server = "listening" /\ ~cancel_token => runPc = "wait")
    /\ [][Count(srvTrace', "stop") > Count(srvTrace, "stop") => cancel_token]_vars
    /\ [](Count(srvTrace, "stop") <= 1)
    /\ [](runPc = "returned" =>
            /\ Count(srvTrace, "stop") = 1
            /\ srvTrace[Len(srvTrace)] = "return"
            /\ peer_pool.stopped)
    /\ [](cancel_token /\ _server = "listening" => <>(runPc = "returned"))

\* run() has returned after one stop().
C10_Witness ==
    /\ runPc = "returned"
    /\ cancel_token
    /\ Count(srvTrace, "stop") = 1

\* C11: stop() is entered only after start() has completed; from its call
\* of close() on, and so after it has returned, the listener is not
\* listening and no receive_handshake task is started; and when stop() has
\* returned the listener is closed and the pool has been asked to stop.
C11_StoppedServerAcceptsNothing ==
    /\ [](Count(srvTrace, "stop") > 0 =>
            /\ 0 < Pos(srvTrace, "wait")
            /\ Pos(srvTrace, "wait") < Pos(srvTrace, "stop")
            /\ _server \notin {"None", "listening"})
    /\ [][(runPc \in {"wait_closed", "pool_stop", "returned"})
             => (\A c \in Conns : pc[c] = "unconnected" => pc'[c] = "unconnected")]_vars
    /\ [](runPc = "returned" =>
            /\ _server = "closed"
            /\ peer_pool.stopped
            /\ Count(srvTrace, "peer_pool.stop") = 1)

\* stop() has returned after one connection had been accepted; the other
\* was never accepted.
C11_Witness ==
    /\ runPc = "returned"
    /\ _server = "closed"
    /\ peer_pool.stopped
    /\ pc[1] # "unconnected"
    /\ pc[NumConns] = "unconnected"

\* C12: a read returns as many bytes as were requested unless the remote
\* closed first: the buffer of the first decode has ENCRYPTED_AUTH_MSG_LEN
\* bytes whenever the remote sends at least that many, a shorter buffer
\* reaches a decode only when the remote closed before sending enough, and
\* the EIP-8 decoder is called in the retry only when the second read
\* appended exactly the remaining bytes computed.
C12_ReadsAreExact ==
    \A c \in Conns :
      /\ \A i \in 1..Len(readGot[c]) :
            readGot[c][i] # readReq[c][i] => link[c] = "eof"
      /\ (attempts[c] # <<>> /\ wire[c].total >= ENCRYPTED_AUTH_MSG_LEN) =>
            attempts[c][1].len = ENCRYPTED_AUTH_MSG_LEN
      /\ \A i \in 1..Len(attempts[c]) :
            attempts[c][i].len < ENCRYPTED_AUTH_MSG_LEN =>
               link[c] = "eof" /\ wire[c].total < ENCRYPTED_AUTH_MSG_LEN
      /\ (Len(attempts[c]) = 2 /\ attempts[c][2].calls # <<>>
            /\ attempts[c][2].calls[1] = "decode_auth_eip8") =>
            /\ readGot[c][2] = readReq[c][2]
            /\ attempts[c][2].len = ENCRYPTED_AUTH_MSG_LEN + readReq[c][2]

\* C13: when the remaining byte count computed after a DecryptionError of
\* the first decode is negative, the task has ended with an error: it does
\* not await a further read, nothing more is taken from the remote, no retry
\* is made and no peer is registered.
C13_NegativeRemainderEndsHandshake ==
    \A c \in Conns :
      (/\ attempts[c] # <<>>
       /\ attempts[c][1].status = "DecryptionError"
       /\ remaining_bytes(msg[c]) < 0) =>
          /\ pc[c] = "failed"
          /\ Len(readGot[c]) = 1
          /\ Len(attempts[c]) = 1
          /\ msg[c].len = ENCRYPTED_AUTH_MSG_LEN
          /\ PeersOf(c) = {}

\* C14: a task calls decode_authentication at most twice, and the second
\* call is on a buffer longer than ENCRYPTED_AUTH_MSG_LEN, hence longer than
\* the buffer of the first call, and goes to the EIP-8 decoder; a buffer of
\* the fixed length on which the plain decoder failed is not decoded again.
C14_RetryOnLongerBuffer ==
    \A c \in Conns :
      /\ Len(attempts[c]) <= 2
      /\ Count(trace[c], "decode_authentication") <= 2
      /\ Len(attempts[c]) = 2 =>
            /\ attempts[c][2].len > ENCRYPTED_AUTH_MSG_LEN
            /\ attempts[c][2].len > attempts[c][1].len
            /\ attempts[c][2].calls # <<>>
            /\ attempts[c][2].calls[1] = "decode_auth_eip8"
            /\ Count(attempts[c][2].calls, "decode_auth_plain") = 0

\* C15: when a handshake has failed, whatever made it fail, the server's
\* socket of that connection is closed.
C15_FailedConnectionClosed ==
    \A c \in Conns : pc[c] = "failed" => sock[c] = "closed"

\* C16: a task writes to its connection at most once; what it writes is
\* the output of encrypt_auth_ack_message for this connection's remote and
\* nonce, written right after it was produced and only after a decode of this
\* connection succeeded; a connection none of whose decodes succeeded, and
\* one whose task failed in a read or a decode, was written nothing.
C16_OnlyTheAckIsWritten ==
    \A c \in Conns :
      LET t == trace[c]
          a == attempts[c]
          decoded == a # <<>> /\ a[Len(a)].status = "ok"
      IN
      /\ Len(written[c]) <= 1
      /\ Count(t, "write") = Len(written[c])
      /\ written[c] # <<>> <=> decoded
      /\ written[c] # <<>> =>
            /\ written[c][1] =
                  <<"auth_ack",
                    <<"Node", <<"initiator_pubkey", wire[c].id>>, <<"Address", c>>>>,
                    <<"token_bytes", c, HASH_LEN>>>>
            /\ wire[c].id = c
            /\ Pos(t, "write") = Pos(t, "encrypt_auth_ack_message") + 1
            /\ Pos(t, "recover_public_key_from_msg_hash") < Pos(t, "write")
            /\ pc[c] \in {"drain", "done", "failed"}
      /\ (pc[c] = "failed" /\ written[c] # <<>>) =>
            EndedWith(c) = "ConnectionResetError" /\ Pos(t, "drain") > 0

\* A handshake whose second decode failed has ended and its remote was
\* written nothing.
C16_Witness ==
    /\ pc[1] = "failed"
    /\ Len(attempts[1]) = 2
    /\ EndedWith(1) \in {"DecryptionError", "FormatError", "RecoveryError"}
    /\ written[1] = <<>>

\* A hash of x, as the claim C17 has it.
HashOf(x) == <<"hash", x>>

\* The decode of connection c that succeeded, when there is one.
Successful(c) == attempts[c][Len(attempts[c])]

\* The XOR of the ECDH shared secret of the server's key and the decoded
\* initiator key with the decoded initiator nonce.
SecretXorNonce(c) ==
    <<"sxor", <<"ecdh", "server_privkey", <<"initiator_pubkey", wire[c].id>>>>,
      <<"initiator_nonce", wire[c].id>>>>

\* C17 as stated: after a successful decode in either format the ephemeral
\* key was recovered from the decoded signature against the hash of the XOR
\* of the ECDH shared secret with the initiator nonce.
C17_RecoveredAgainstHashOfXor ==
    \A c \in Conns :
      hs[c].ephem_pubkey # None =>
         hs[c].ephem_pubkey = <<"ephem_pubkey", wire[c].id, HashOf(SecretXorNonce(c))>>

\* C17 amended: after a successful decode in either format,
\* decode_authentication has called ecdh_agree on the server's key and the
\* decoded initiator key, then sxor on that secret and the decoded nonce, then
\* the recovery on the decoded signature with the XOR itself as the message
\* hash; it returns the recovered key with the decoded nonce and initiator
\* key, and it has hashed nothing.
C17_RecoveredAgainstXor ==
    \A c \in Conns :
      /\ hs[c].ephem_pubkey # None =>
            /\ hs[c].ephem_pubkey = <<"ephem_pubkey", wire[c].id, SecretXorNonce(c)>>
            /\ hs[c].initiator_nonce = <<"initiator_nonce", wire[c].id>>
            /\ hs[c].initiator_pubkey = <<"initiator_pubkey", wire[c].id>>
            /\ wire[c].sig = "good"
            /\ Successful(c).status = "ok"
            /\ Successful(c).calls \in
                  {<<d, "ecdh_agree", "sxor", "recover_public_key_from_msg_hash">> :
                     d \in {"decode_auth_plain", "decode_auth_eip8"}}
      /\ \A i \in 1..Len(attempts[c]) :
            attempts[c][i].status \in {"ok", "RecoveryError"} =>
               /\ Len(attempts[c][i].calls) = 4
               /\ SubSeq(attempts[c][i].calls, 2, 4) =
                     <<"ecdh_agree", "sxor", "recover_public_key_from_msg_hash">>

\* An EIP-8 auth-init was decoded in the retry and its ephemeral key
\* recovered.
C17_Witness ==
    /\ Len(attempts[1]) = 2
    /\ attempts[1][2].status = "ok"
    /\ attempts[1][2].calls[1] = "decode_auth_eip8"
    /\ hs[1].ephem_pubkey # None

\* The sum of the numbers in the sequence t.
RECURSIVE Sum(_)
Sum(t) == IF t = <<>> THEN 0 ELSE t[1] + Sum(Tail(t))

\* C18: the secrets of a registered peer were derived from the whole buffer
\* on which the decode succeeded (all the bytes the reads returned: the
\* first read's and, after a fallback, the second's appended), from the
\* auth-ack ciphertext that was written to the connection, from the
\* responder nonce that ack was created with, and from the initiator nonce
\* and the ephemeral key the successful decode returned.
C18_SecretsFromWhatWasExchanged ==
    \A c \in Conns :
      \A p \in PeersOf(c) :
        LET d == p.secrets IN
        /\ d.auth_init_ciphertext.body = wire[c]
        /\ d.auth_init_ciphertext.len = Successful(c).len
        /\ d.auth_init_ciphertext.len = Sum(readGot[c])
        /\ Successful(c).status = "ok"
        /\ d.auth_init_ciphertext.head = int_to_big_endian2(wire[c].size)
        /\ written[c] = <<d.auth_ack_ciphertext>>
        /\ d.auth_ack_ciphertext[1] = "auth_ack"
        /\ d.responder_nonce = d.auth_ack_ciphertext[3]
        /\ d.responder_nonce = <<"token_bytes", c, HASH_LEN>>
        /\ d.initiator_nonce = <<"initiator_nonce", wire[c].id>>
        /\ d.remote_ephemeral_pubkey[1] = "ephem_pubkey"
        /\ d.remote_ephemeral_pubkey[2] = wire[c].id
        /\ d.remote_ephemeral_pubkey = hs[c].ephem_pubkey

\* A peer registered after a fallback: its secrets were derived from a
\* buffer longer than the fixed length.
C18_Witness ==
    /\ pc[1] = "done"
    /\ Len(readGot[1]) = 2
    /\ \E p \in PeersOf(1) :
          /\ p.secrets.auth_init_ciphertext.len > ENCRYPTED_AUTH_MSG_LEN
          /\ p.secrets.auth_init_ciphertext.len = wire[1].total

\* The step is one of run() / stop() or of whoever triggers the token.
ServerStep ==
    \/ cancel_token' # cancel_token
    \/ _server' # _server
    \/ runPc' # runPc
    \/ srvTrace' # srvTrace
    \/ peer_pool'.stopped # peer_pool.stopped

\* C19: triggering the token and the steps of stop() (closing the listener,
\* wait_closed() returning, asking the pool to stop, returning) leave every
\* handshake task and its connection as they are; a task ends only by
\* registering its peer or with an exception of its own read, decode or
\* drain; and a task that is in flight can take its next step whatever the
\* token, the listener and the pool are, up to adding its peer to the pool
\* after the pool was asked to stop.
C19_StopLeavesHandshakesRunning ==
    /\ [][ServerStep =>
             /\ pc' = pc /\ link' = link /\ sock' = sock /\ msg' = msg
             /\ readReq' = readReq /\ readGot' = readGot
             /\ attempts' = attempts /\ written' = written
             /\ trace' = trace /\ hs' = hs
             /\ peer_pool'.peers = peer_pool.peers]_vars
    /\ [](\A c \in Conns : pc[c] = "failed" => EndedWith(c) \in Exceptions)
    /\ [](\A c \in Conns : CanGoOn(c))
    /\ [][\A c \in Conns :
             (pc[c] = "drain" /\ pc'[c] = "done") =>
                Cardinality(peer_pool'.peers) = Cardinality(peer_pool.peers) + 1]_vars

\* stop() has returned, the listener is closed and the pool was asked to
\* stop, while a handshake that was accepted before awaits the drain of its
\* ack and can go on to derive its secrets and register its peer.
C19_Witness ==
    /\ runPc = "returned"
    /\ _server = "closed"
    /\ peer_pool.stopped
    /\ pc[1] = "drain"
    /\ PeersOf(1) = {}
    /\ ENABLED Drained(1)

\* The step changes something of connection c's task or stream.
StepOf(c) ==
    \/ pc'[c] # pc[c]
    \/ msg'[c] # msg[c]
    \/ hs'[c] # hs[c]
    \/ trace'[c] # trace[c]
    \/ written'[c] # written[c]
    \/ link'[c] # link[c]

\* C20: whatever the interleaving of the handshakes, a peer in the pool
\* carries its own connection's reader and writer, the remote identity built
\* from that connection's decoded key and address, and secrets derived from
\* that connection's buffer, initiator nonce, ephemeral key, responder nonce
\* and ack ciphertext; the responder nonces of different connections differ;
\* a step of one task leaves every other task's locals and connection as
\* they are; and of the server's state a task changes only the peers of the
\* pool, to which it adds its own.
C20_PeerBuiltFromItsOwnConnection ==
    /\ [](\A p \in peer_pool.peers :
            LET c == p.reader IN
            /\ c \in Conns
            /\ p.writer = c
            /\ pc[c] = "done"
            /\ Cardinality(PeersOf(c)) = 1
            /\ p.privkey = "server_privkey"
            /\ p.remote = <<"Node", <<"initiator_pubkey", c>>, <<"Address", c>>>>
            /\ p.secrets.auth_init_ciphertext = msg[c]
            /\ p.secrets.auth_init_ciphertext.body.id = c
            /\ p.secrets.initiator_nonce = <<"initiator_nonce", c>>
            /\ p.secrets.remote_ephemeral_pubkey[2] = c
            /\ p.secrets.remote_ephemeral_pubkey[3][2][3] = <<"initiator_pubkey", c>>
            /\ p.secrets.responder_nonce = <<"token_bytes", c, HASH_LEN>>
            /\ p.secrets.auth_ack_ciphertext =
                  <<"auth_ack", p.remote, <<"token_bytes", c, HASH_LEN>>>>
            /\ written[c] = <<p.secrets.auth_ack_ciphertext>>)
    /\ [](\A p, q \in peer_pool.peers :
            p.reader # q.reader =>
               /\ p.secrets.responder_nonce # q.secrets.responder_nonce
               /\ p.secrets.auth_ack_ciphertext # q.secrets.auth_ack_ciphertext
               /\ p.remote # q.remote)
    /\ [][\A c \in Conns :
             StepOf(c) =>
                /\ OthersUntouched(c)
                /\ cancel_token' = cancel_token
                /\ _server' = _server
                /\ runPc' = runPc
                /\ srvTrace' = srvTrace
                /\ peer_pool'.stopped = peer_pool.stopped
                /\ peer_pool.peers \subseteq peer_pool'.peers
                /\ \A p \in peer_pool'.peers \ peer_pool.peers : p.reader = c]_vars

\* Two handshakes ran interleaved: the second, accepted after the first,
\* has registered its peer while the first, after a fallback, still awaits
\* the drain of its ack.
C20_Witness ==
    /\ pc[1] = "drain"
    /\ Len(attempts[1]) = 2
    /\ pc[2] = "done"
    /\ \E p \in peer_pool.peers :
          /\ p.reader = 2
          /\ p.secrets.auth_init_ciphertext.body.id = 2

====
